---- MODULE Spec2Model ----
(***************************************************************************)
(* A model of the `unty` crate (src/src/lib.rs): the type-identity         *)
(* comparison `type_equal` and the reinterpretation cast `unty`.           *)
(*                                                                         *)
(* Several threads call the two functions with no synchronisation.  A      *)
(* call is split at the two places where it reads the host's type-identity *)
(* table (the two operands of `==` on line 79); everything after the       *)
(* second read touches only the caller's own value and is one step.        *)
(***************************************************************************)
EXTENDS Naturals, Sequences, FiniteSets, TLC

\* Values of a type are built from the seeds 0..MaxByte.
MaxByte == 1

\* The two concurrently calling threads.
Threads == {1, 2}

VARIABLES
    typeTable,  \* the host's type-identity table: erased type -> TypeId
    pc,         \* per thread: "ready", "src", "tgt", "done"
    frame,      \* per thread: the call in flight, or the last call completed
    live,       \* per thread: the handles to its value that are in scope
    drops,      \* per thread: how often the destructor of its value has run
    life,       \* per thread: "none", "held", "dropped" (the caller's view)
    chain       \* per thread: the outcomes of the unty calls made on its value
\* drops, life and chain are about the thread's current value; a thread that
\* goes on to work without a value starts them afresh.

vars == <<typeTable, pc, frame, live, drops, life, chain>>

----------------------------------------------------------------------------
\* Types.  A type is its shape (the type with every lifetime erased) and the
\* lifetime it carries, "none" when it has no lifetime parameter.

Regions == {"a", "b", "static"}

Type(s, r) == [shape |-> s, region |-> r]

u8 == Type("u8", "none")
String == Type("String", "none")
str == Type("str", "none")
RefStr(r) == Type("RefStr", r)

Shapes == {"u8", "String", "str", "RefStr"}

Types == {u8, String, str} \cup {RefStr(r) : r \in Regions}

\* The implicit `Sized` bound; `str` is the unsized type of the model.
Sized(T) == T.shape # "str"

\* The bound `T: 'static`: T borrows nothing that is not 'static.
Static(T) == T.region \in {"none", "static"}

\* What is left of a type at run time: lifetimes are erased.
Erased(T) == T.shape

\* unty<Src, Target: 'static>(x: Src): both are Sized, Target is 'static.
SrcTypes == {T \in Types : Sized(T)}
TargetTypes == {T \in Types : Sized(T) /\ Static(T)}

\* mem::size_of, in words: u8 is one, &str is (ptr, len), String is
\* (ptr, cap, len).
size_of(T) ==
    CASE T.shape = "u8" -> 1
      [] T.shape = "RefStr" -> 2
      [] T.shape = "String" -> 3
      [] OTHER -> 0

\* The table the compiler builds: one distinct TypeId per erased type.
ShapeList == <<"u8", "String", "str", "RefStr">>
TypeTable0 == [s \in Shapes |-> CHOOSE i \in 1..Len(ShapeList) : ShapeList[i] = s]

----------------------------------------------------------------------------
\* Identity (lines 78-104).

\* A faulty TypeId::of: the identity is cut to one bit, so types collide.
TypeId_of_truncated(T) == typeTable[Erased(T)] % 2

\* TypeId::of::<T>() on line 96: a read of the host table.
TypeId_of(T) == typeTable[Erased(T)]

\* <PhantomData<T> as NonStaticAny>::get_type_id (lines 91-98).
get_type_id(T) == TypeId_of(T)

\* A faulty identity: taken from where the marker lies (which moves with what
\* the program holds at the moment), not from the type alone.
non_static_type_id_by_address(T) ==
    get_type_id(T) + Cardinality({t \in Threads : life[t] = "held"})

\* non_static_type_id::<T>() (lines 84-104): the transmute of the reference
\* on line 102 changes no byte and lifts the `Self: 'static` obligation.
non_static_type_id(T) == get_type_id(T)

\* A faulty type_equal: types that are not 'static are never equal.
type_equal_static_only(f) ==
    Static(f.Src) /\ Static(f.Target) /\ f.idSrc = f.idTarget

\* The comparison on line 79, on a frame holding both identities.
type_equal(f) == f.idSrc = f.idTarget

----------------------------------------------------------------------------
\* Values and handles.

NoVal == [ty |-> "none"]
NoFrame == [op |-> "none"]
Pending == [tag |-> "pending"]

\* The bytes of the value of type T built from seed b; every position differs.
Bytes(T, b) == [i \in 1..size_of(T) |-> 16 * b + i]

\* An owning handle: dropping it while `armed` runs the destructor.
Handle(T, bytes, id, armed) == [ty |-> T, bytes |-> bytes, id |-> id, armed |-> armed]

\* A faulty line 47: x is not wrapped, so it is dropped at the end of unty.
ManuallyDrop_new_omitted(x) == x

\* mem::ManuallyDrop::new(x) on line 47: x is moved into a wrapper that
\* never runs the destructor.
ManuallyDrop_new(x) == Handle(x.ty, x.bytes, x.id, FALSE)

\* A faulty line 48: the copy is returned as disarmed as the wrapper is.
transmute_copy_disarmed(x, Target) ==
    Handle(Target, SubSeq(x.bytes, 1, size_of(Target)), x.id, x.armed)

\* mem::transmute_copy::<Src, Target>(&x) on line 48: a new Target value made
\* of the first size_of::<Target>() bytes behind the reference.
transmute_copy(x, Target) ==
    Handle(Target, SubSeq(x.bytes, 1, size_of(Target)), x.id, TRUE)

\* Leaving a scope drops its locals: the destructors run there.
ScopeExit(locals) == Cardinality({h \in locals : h.armed})

\* A faulty unty: the value is reinterpreted without the check of line 46.
unty_unchecked(f) ==
    LET x == ManuallyDrop_new(f.x)
    IN  IF size_of(f.Target) > size_of(f.Src)
        THEN [ret |-> [tag |-> "Panic", val |-> NoVal], live |-> {}, dropped |-> 0]
        ELSE LET y == transmute_copy(x, f.Target)
             IN  [ret |-> [tag |-> "Ok", val |-> y],
                  live |-> {y}, dropped |-> ScopeExit({x})]

\* unty (lines 45-52) from the comparison on: the returned Result, the
\* handles in scope after the return, the destructors run inside the call.
unty(f) ==
    IF type_equal(f)
    THEN LET x == ManuallyDrop_new(f.x)
         IN  IF size_of(f.Target) > size_of(f.Src)
             THEN [ret |-> [tag |-> "Panic", val |-> NoVal],
                   live |-> {}, dropped |-> 0]
             ELSE LET y == transmute_copy(x, f.Target)
                  IN  [ret |-> [tag |-> "Ok", val |-> y],
                       live |-> {y}, dropped |-> ScopeExit({x})]
    ELSE [ret |-> [tag |-> "Err", val |-> f.x], live |-> {f.x}, dropped |-> 0]

----------------------------------------------------------------------------
\* The state machine.

Init ==
    /\ typeTable = TypeTable0
    /\ pc = [t \in Threads |-> "ready"]
    /\ frame = [t \in Threads |-> NoFrame]
    /\ live = [t \in Threads |-> {}]
    /\ drops = [t \in Threads |-> 0]
    /\ life = [t \in Threads |-> "none"]
    /\ chain = [t \in Threads |-> {}]

Idle(t) == pc[t] \in {"ready", "done"}

\* A caller makes a value of type T (foo(10u8), foo("test"), foo(Ty)).
New(t, T, b) ==
    /\ Idle(t)
    /\ life[t] \in {"none", "dropped"}
    /\ live' = [live EXCEPT ![t] = {Handle(T, Bytes(T, b), t, TRUE)}]
    /\ drops' = [drops EXCEPT ![t] = 0]
    /\ life' = [life EXCEPT ![t] = "held"]
    /\ chain' = [chain EXCEPT ![t] = {}]
    /\ frame' = [frame EXCEPT ![t] = NoFrame]
    /\ pc' = [pc EXCEPT ![t] = "ready"]
    /\ UNCHANGED typeTable

\* type_equal::<Src, Target>() is called and evaluates the left operand.
CallTypeEqual(t, Src, Target) ==
    /\ Idle(t)
    /\ life[t] # "held"
    /\ frame' = [frame EXCEPT ![t] =
                    [op |-> "type_equal", Src |-> Src, Target |-> Target,
                     x |-> NoVal, idSrc |-> non_static_type_id(Src),
                     idTarget |-> 0, ret |-> Pending]]
    /\ pc' = [pc EXCEPT ![t] = "src"]
    /\ drops' = [drops EXCEPT ![t] = 0]
    /\ life' = [life EXCEPT ![t] = "none"]
    /\ chain' = [chain EXCEPT ![t] = {}]
    /\ UNCHANGED <<typeTable, live>>

\* unty::<Src, Target>(x) is called with the thread's value, whose type is
\* Src, and evaluates the left operand of type_equal.
CallUnty(t, Target) ==
    /\ Idle(t)
    /\ life[t] = "held"
    /\ \E x \in live[t] :
          frame' = [frame EXCEPT ![t] =
                       [op |-> "unty", Src |-> x.ty, Target |-> Target,
                        x |-> x, idSrc |-> non_static_type_id(x.ty),
                        idTarget |-> 0, ret |-> Pending]]
    /\ pc' = [pc EXCEPT ![t] = "src"]
    /\ UNCHANGED <<typeTable, live, drops, life, chain>>

\* A faulty lookup: the type is registered in the host table under a new
\* identity when it is looked up.
EvalTarget_registering(t) ==
    /\ pc[t] = "src"
    /\ typeTable' = [typeTable EXCEPT ![Erased(frame[t].Target)] = @ + Len(ShapeList)]
    /\ frame' = [frame EXCEPT ![t].idTarget = typeTable'[Erased(frame[t].Target)]]
    /\ pc' = [pc EXCEPT ![t] = "tgt"]
    /\ UNCHANGED <<live, drops, life, chain>>

\* The right operand of the comparison on line 79.
EvalTarget(t) ==
    /\ pc[t] = "src"
    /\ frame' = [frame EXCEPT ![t].idTarget = non_static_type_id(frame[t].Target)]
    /\ pc' = [pc EXCEPT ![t] = "tgt"]
    /\ UNCHANGED <<typeTable, live, drops, life, chain>>

\* type_equal returns the comparison.
ReturnTypeEqual(t) ==
    /\ pc[t] = "tgt"
    /\ frame[t].op = "type_equal"
    /\ frame' = [frame EXCEPT ![t].ret = [tag |-> "Bool", val |-> type_equal(frame[t])]]
    /\ pc' = [pc EXCEPT ![t] = "done"]
    /\ UNCHANGED <<typeTable, live, drops, life, chain>>

\* unty branches on the comparison and returns; the caller holds the payload.
ReturnUnty(t) ==
    /\ pc[t] = "tgt"
    /\ frame[t].op = "unty"
    /\ LET r == unty(frame[t])
       IN  /\ frame' = [frame EXCEPT ![t].ret = r.ret]
           /\ live' = [live EXCEPT ![t] = r.live]
           /\ drops' = [drops EXCEPT ![t] = @ + r.dropped]
           /\ chain' = [chain EXCEPT ![t] = @ \cup {r.ret.tag}]
    /\ pc' = [pc EXCEPT ![t] = "done"]
    /\ UNCHANGED <<typeTable, life>>

\* The caller lets go of its value: every handle it holds leaves scope.
DropValue(t) ==
    /\ Idle(t)
    /\ life[t] = "held"
    /\ drops' = [drops EXCEPT ![t] = @ + ScopeExit(live[t])]
    /\ live' = [live EXCEPT ![t] = {}]
    /\ life' = [life EXCEPT ![t] = "dropped"]
    /\ UNCHANGED <<typeTable, pc, frame, chain>>

Next ==
    \E t \in Threads :
        \/ \E T \in SrcTypes, b \in 0..MaxByte : New(t, T, b)
        \/ \E S \in Types, T \in Types : CallTypeEqual(t, S, T)
        \/ \E T \in TargetTypes : CallUnty(t, T)
        \/ EvalTarget(t)
        \/ ReturnTypeEqual(t)
        \/ ReturnUnty(t)
        \/ DropValue(t)

Spec == Init /\ [][Next]_vars

----------------------------------------------------------------------------
\* Properties.

\* Thread t has completed a call of op and still holds its frame.
Done(t, op) == pc[t] = "done" /\ frame[t].op = op

\* What type_equal::<Src, Target>() computes from the host table now.
TypesEqual(Src, Target) ==
    type_equal([Src |-> Src, Target |-> Target,
                idSrc |-> non_static_type_id(Src),
                idTarget |-> non_static_type_id(Target)])

\* The failure outcome of thread t's unty call: Err holding the very handle
\* that was passed in, which the caller still owns with no destructor run
\* until the caller drops it.
ErrUntouched(t) ==
    /\ frame[t].ret = [tag |-> "Err", val |-> frame[t].x]
    /\ life[t] = "held" => live[t] = {frame[t].x} /\ drops[t] = 0
    /\ life[t] = "dropped" => drops[t] = 1

\* The success outcome of thread t's unty call: Ok holding a Target handle
\* over the bytes passed in; no destructor has run while the caller holds it,
\* and exactly one has run once the caller dropped it.
OkReinterpreted(t) ==
    /\ frame[t].ret.tag = "Ok"
    /\ frame[t].ret.val.ty = frame[t].Target
    /\ frame[t].ret.val.bytes = frame[t].x.bytes
    /\ frame[t].ret.val.id = frame[t].x.id
    /\ life[t] = "held" => live[t] = {frame[t].ret.val} /\ frame[t].ret.val.armed
                           /\ drops[t] = 0
    /\ life[t] = "dropped" => drops[t] = 1

\* C1: unty::<T, T>(x) returns Ok(y) with y bit-identical to x; the
\* destructor has not run when the call returns and has run exactly once
\* after the returned handle is dropped.
C1_SameTypeOkDroppedOnce ==
    \A t \in Threads :
        Done(t, "unty") /\ frame[t].Src = frame[t].Target => OkReinterpreted(t)

C1_Witness ==
    \E t \in Threads :
        /\ Done(t, "unty")
        /\ frame[t].Src = String /\ frame[t].Target = String
        /\ frame[t].ret.tag = "Ok"
        /\ life[t] = "dropped" /\ drops[t] = 1

\* C2 as stated: for every Target different from Src, unty returns Err(x)
\* with x untouched and runs no destructor.
C2_Original ==
    \A t \in Threads :
        Done(t, "unty") /\ frame[t].Src # frame[t].Target => ErrUntouched(t)

\* C2 as amended: for every Target that differs from Src in more than
\* lifetime parameters, unty returns Err(x) with x untouched and runs no
\* destructor; the destructor runs only when the caller drops the value.
C2_DifferentShapeErr ==
    \A t \in Threads :
        Done(t, "unty") /\ Erased(frame[t].Src) # Erased(frame[t].Target)
            => ErrUntouched(t)

C2_Witness ==
    \E t \in Threads :
        /\ Done(t, "unty")
        /\ frame[t].Src = String /\ frame[t].Target = u8
        /\ frame[t].ret.tag = "Err"
        /\ life[t] = "held" /\ drops[t] = 0

\* C3: type_equal::<T, T>() is true for every T, unsized types and types
\* with lifetime parameters included.
C3_Reflexive ==
    \A t \in Threads :
        Done(t, "type_equal") /\ frame[t].Src = frame[t].Target
            => frame[t].ret = [tag |-> "Bool", val |-> TRUE]

C3_Witness ==
    /\ \E t \in Threads :
          Done(t, "type_equal") /\ frame[t].Src = str /\ frame[t].Target = str
    /\ \E t \in Threads :
          Done(t, "type_equal") /\ frame[t].Src = RefStr("a")
          /\ frame[t].Target = RefStr("a")

\* C4: type_equal::<T, U>() is false for distinct T and U that have no
\* lifetime parameter left open (none at all, or 'static as in &'static str).
C4_DistinctConcreteFalse ==
    \A t \in Threads :
        /\ Done(t, "type_equal")
        /\ frame[t].Src # frame[t].Target
        /\ Static(frame[t].Src) /\ Static(frame[t].Target)
        => frame[t].ret = [tag |-> "Bool", val |-> FALSE]

C4_Witness ==
    /\ \E t \in Threads :
          Done(t, "type_equal") /\ frame[t].Src = String
          /\ frame[t].Target = RefStr("static")
    /\ \E t \in Threads :
          Done(t, "type_equal") /\ frame[t].Src = u8 /\ frame[t].Target = String

\* C5: every unty call returns, with Ok or Err and nothing else; it is Ok
\* exactly when type_equal is true of its type arguments, Ok holds the bytes
\* passed in and Err the very value passed in.
C5_TotalDecidedByTypeEqual ==
    \A t \in Threads :
        /\ pc[t] \in {"src", "tgt"}
              => ENABLED (EvalTarget(t) \/ ReturnTypeEqual(t) \/ ReturnUnty(t))
        /\ Done(t, "unty") =>
              /\ frame[t].ret.tag \in {"Ok", "Err"}
              /\ frame[t].ret.tag = "Ok"
                    <=> TypesEqual(frame[t].Src, frame[t].Target)
              /\ frame[t].ret.tag = "Ok"
                    => frame[t].ret.val.bytes = frame[t].x.bytes
              /\ frame[t].ret.tag = "Err" => frame[t].ret.val = frame[t].x

C5_Witness ==
    \E t1 \in Threads, t2 \in Threads :
        /\ Done(t1, "unty") /\ frame[t1].ret.tag = "Ok"
        /\ Done(t2, "unty") /\ frame[t2].ret.tag = "Err"

\* C6: type_equal is true of two types that differ only in lifetime
\* parameters, and unty between two such types returns Ok with the value
\* reinterpreted.
C6_LifetimesConflated ==
    \A t \in Threads :
        /\ Done(t, "type_equal") \/ Done(t, "unty")
        /\ Erased(frame[t].Src) = Erased(frame[t].Target)
        /\ frame[t].Src.region # frame[t].Target.region
        => /\ Done(t, "type_equal") => frame[t].ret = [tag |-> "Bool", val |-> TRUE]
           /\ Done(t, "unty") => OkReinterpreted(t)

C6_Witness ==
    /\ \E t \in Threads :
          /\ Done(t, "type_equal")
          /\ frame[t].Src = RefStr("a") /\ frame[t].Target = RefStr("b")
    /\ \E t \in Threads :
          /\ Done(t, "unty")
          /\ frame[t].Src = RefStr("a") /\ frame[t].Target = RefStr("static")
          /\ frame[t].ret.tag = "Ok"

\* C7 as stated: if the two types are different types, their identities
\* differ and type_equal is false.
C7_Original ==
    \A t \in Threads :
        Done(t, "type_equal") /\ frame[t].Src # frame[t].Target
            => /\ frame[t].idSrc # frame[t].idTarget
               /\ frame[t].ret.val = FALSE

\* C7 as amended: if the two types differ in more than lifetime parameters,
\* their identities differ and type_equal is false.
C7_DifferentShapeFalse ==
    \A t \in Threads :
        Done(t, "type_equal") /\ Erased(frame[t].Src) # Erased(frame[t].Target)
            => /\ frame[t].idSrc # frame[t].idTarget
               /\ frame[t].ret.val = FALSE

C7_Witness ==
    \E t \in Threads :
        /\ Done(t, "type_equal")
        /\ frame[t].Src = RefStr("a") /\ frame[t].Target = str
        /\ frame[t].ret.val = FALSE

\* The boolean a completed call came to: type_equal's result, unty's branch.
Outcome(f) == IF f.op = "type_equal" THEN f.ret.val ELSE f.ret.tag = "Ok"

\* C8: two completed calls of the same function with the same type arguments
\* came to the same result, whatever was called before them and whatever
\* bytes the values hold.
C8_Deterministic ==
    \A t1 \in Threads, t2 \in Threads :
        /\ pc[t1] = "done" /\ pc[t2] = "done"
        /\ frame[t1].op # "none" /\ frame[t1].op = frame[t2].op
        /\ frame[t1].Src = frame[t2].Src
        /\ frame[t1].Target = frame[t2].Target
        => Outcome(frame[t1]) = Outcome(frame[t2])

C8_Witness ==
    \E t1 \in Threads, t2 \in Threads :
        /\ Done(t1, "unty") /\ Done(t2, "unty")
        /\ frame[t1].Src = frame[t2].Src
        /\ frame[t1].Target = frame[t2].Target
        /\ frame[t1].x.bytes # frame[t2].x.bytes
        /\ chain[t1] = {"Ok", "Err"} /\ chain[t2] = {"Ok"}

\* The result of the call in frame f when it runs alone, from the table the
\* program started with.
AloneResult(f) ==
    LET g == [f EXCEPT !.idSrc = TypeTable0[Erased(f.Src)],
                       !.idTarget = TypeTable0[Erased(f.Target)]]
    IN  IF f.op = "type_equal"
        THEN [tag |-> "Bool", val |-> type_equal(g)]
        ELSE unty(g).ret

C9_State ==
    \A t \in Threads :
        /\ pc[t] = "done" /\ frame[t].op # "none"
              => frame[t].ret = AloneResult(frame[t])
        /\ life[t] = "held" => drops[t] = 0
        /\ life[t] = "dropped" => drops[t] = 1

\* C9: however the calls of the threads interleave, no step writes the host
\* table, every completed call has the result it has when run alone, and
\* each thread's value is dropped exactly once.
C9_Concurrent == [](C9_State) /\ [][typeTable' = typeTable]_vars

C9_Witness ==
    \E t1 \in Threads, t2 \in Threads :
        /\ pc[t1] = "tgt" /\ frame[t1].op = "unty"
        /\ pc[t2] = "src" /\ frame[t2].op = "type_equal"
        /\ chain[t1] # {}

\* C10: over any chain of unty calls a thread's value has exactly one handle,
\* armed and over the bytes it was made of, from its creation to its drop,
\* the destructor not having run; after the drop there is no handle and the
\* destructor has run exactly once.
C10_OwnershipConserved ==
    \A t \in Threads :
        /\ life[t] = "none" => live[t] = {} /\ drops[t] = 0
        /\ life[t] = "held" =>
              /\ Cardinality(live[t]) = 1
              /\ \A h \in live[t] :
                    /\ h.armed /\ h.id = t
                    /\ \E b \in 0..MaxByte : h.bytes = Bytes(h.ty, b)
              /\ drops[t] = 0
        /\ life[t] = "dropped" => live[t] = {} /\ drops[t] = 1

C10_Witness ==
    \E t \in Threads :
        life[t] = "dropped" /\ chain[t] = {"Ok", "Err"} /\ drops[t] = 1

====
